---- MODULE Spec2Model ----
(***************************************************************************)
(* A model of hadrodb's storage engine (src/hadrodb/engine.py, class       *)
(* HadroDB) and of its row codec (src/hadrodb/record.py, class Row).       *)
(*                                                                         *)
(* The log file is a sequence of bytes (naturals below 256).  A scan is a  *)
(* Python generator: one ScanNext step is one next() call, which runs the  *)
(* generator body from where it is suspended to its next yield, to its end *)
(* or to the exception it raises.  The body is modelled statement block by *)
(* statement block (ScanBegin, ScanWhile, ScanInner, ScanYield,            *)
(* ScanNextHeader) over the reads of io.BufferedReader (BufRead).          *)
(*                                                                         *)
(* Scaling: block_size is 8 MiB in the source.  The model runs the same    *)
(* algorithm with block sizes of a few bytes (BlockSizes) so that frame    *)
(* headers and payloads meet block boundaries in logs of a few frames.     *)
(***************************************************************************)
EXTENDS Integers, Sequences, FiniteSets, TLC

(* ------------------------------ bounds --------------------------------- *)
MaxAppends == 2      \* append() calls started in one behaviour
MaxFields  == 1      \* longest row
MaxScans   == 2      \* generators alive at the same time
MaxFrames  == 2      \* frames of a log that was written before the engine opens it

(* --------------------------- program constants ------------------------- *)
DELETED_FLAG == 1
HeaderSize   == 5

BlockSizes  == {6, 64}
FieldValues == {1}
Keys        == {"othello", "hamlet"}
ScanIds     == 1..MaxScans

VARIABLES
    est,             \* the engine object: open, closed (close() returned),
                     \* reclosed (close() called again) or down (no process)
    disk,            \* content of <collection>/00000000.data
    synced,          \* length of the prefix of disk that fsync has made durable
    file,            \* self.file / self.fileno: [pos, closed]
    write_position,  \* self.write_position
    key_dir,         \* self.key_dir
    mode,            \* WRITE_CONSISTENCY
    block_size,      \* block_size of scan
    scans,           \* the generators returned by scan()
    apc,             \* position of the running append(): idle, written, flushed
    appended,        \* history: the append() calls that wrote, in order
    kv,              \* history of the dictionary-style calls
    snap,            \* history: contents at the last close()
    coll,            \* the collection path, and the last call of __init__ on it
    codec,           \* a row on its way through a codec: encoded, decoded
    thr              \* the threads that call append() at the same time

vars == <<est, disk, synced, file, write_position, key_dir, mode, block_size,
          scans, apc, appended, kv, snap, coll, codec, thr>>

(* ------------------------------ helpers -------------------------------- *)
Min(a, b) == IF a < b THEN a ELSE b

Take(s, n) == SubSeq(s, 1, Min(n, Len(s)))

Drop(s, n) == SubSeq(s, n + 1, Len(s))

Rows == UNION {[1..n -> FieldValues] : n \in 0..MaxFields}

(* ------------------------------ record.py ------------------------------ *)
\* ormsgpack.packb of a tuple of small non-negative integers: a fixarray
\* byte 0x90 + n followed by one positive-fixint byte per element
packb(row) == <<144 + Len(row)>> \o row

\* int.to_bytes(4, "big")
U32BE(n) == << (n \div 16777216) % 256, (n \div 65536) % 256,
               (n \div 256) % 256, n % 256 >>

\* Row.to_bytes with the number of fields in the size field, in place of the
\* number of payload bytes
to_bytes_counting_fields(row) == <<0>> \o U32BE(Len(row)) \o packb(row)

\* Row.to_bytes
to_bytes(row) == <<0>> \o U32BE(Len(packb(row))) \o packb(row)

\* ormsgpack.unpackb raises on input that is not exactly one msgpack value
DecodeOk(data) ==
    /\ Len(data) >= 1
    /\ data[1] >= 144 /\ data[1] <= 159
    /\ Len(data) = 1 + (data[1] - 144)
    /\ \A i \in 2..Len(data) : data[i] < 128

\* Row.from_bytes (on data for which DecodeOk holds)
from_bytes(data) == Drop(data, 1)

\* struct.unpack(">BI", header_bytes)
UnpackFlags(h) == h[1]

\* Sizes of 2^30 and more are all represented by 2^30 (the integers of the
\* checker have 32 bits): no log of the model is that long, so the reads of
\* such a payload all end at the end of the file.
UnpackSize(h) ==
    IF h[2] >= 64 THEN 1073741824
    ELSE h[2] * 16777216 + h[3] * 65536 + h[4] * 256 + h[5]

(* --------------------- io.BufferedReader over self.file ---------------- *)
\* the bytes a raw read of n bytes returns at file offset pos of content d
RawRead(d, pos, n) == SubSeq(d, pos + 1, Min(pos + n, Len(d)))

\* BufferedReader.read(n) on a reader holding buf, over the file f: its
\* descriptor's offset pos, whether it is closed, and the content data.
\* n < -1 is refused first, then a closed raw file; a request the buffer
\* cannot serve takes the buffer, reads whole blocks directly and reads
\* one more block into the buffer for the rest; -1 reads to end of file.
BufRead(buf, f, n) ==
    IF n < -1 THEN
        [err |-> "ValueError: read length", data |-> <<>>, buf |-> buf, pos |-> f.pos]
    ELSE IF f.closed THEN
        [err |-> "ValueError: closed file", data |-> <<>>, buf |-> buf, pos |-> f.pos]
    ELSE IF n = -1 THEN
        [err |-> "", data |-> buf \o RawRead(f.data, f.pos, Len(f.data)), buf |-> <<>>,
         pos |-> Len(f.data)]
    ELSE IF n <= Len(buf) THEN
        [err |-> "", data |-> Take(buf, n), buf |-> Drop(buf, n), pos |-> f.pos]
    ELSE
        LET rem    == n - Len(buf)
            direct == block_size * (rem \div block_size)
            d1     == RawRead(f.data, f.pos, direct)
            pos1   == f.pos + Len(d1)
            rem2   == rem - direct
            chunk  == RawRead(f.data, pos1, block_size)
        IN  IF Len(d1) < direct \/ rem2 = 0 THEN
                [err |-> "", data |-> buf \o d1, buf |-> <<>>, pos |-> pos1]
            ELSE
                [err |-> "", data |-> buf \o d1 \o Take(chunk, rem2),
                 buf |-> Drop(chunk, rem2), pos |-> pos1 + Len(chunk)]

(* ------------------------------ HadroDB.scan --------------------------- *)
\* the locals of a generator frame of scan(); pc "idle" is no generator
NoScan ==
    [pc |-> "idle", buf |-> <<>>, block_start |-> 0, flags |-> 0, size |-> 0,
     data_bytes |-> <<>>, remaining_size |-> 0, out |-> <<>>, err |-> "",
     hlen |-> -1, startlen |-> 0]

Raise(st, f, e) == [st |-> [st EXCEPT !.pc = "raised", !.err = e], f |-> f]

\* the generator returns: its frame is cleared, the BufferedReader it held is
\* finalized, and a finalized BufferedReader closes the raw file it wraps
Return(st, f) ==
    [st |-> [st EXCEPT !.pc = "done", !.buf = <<>>], f |-> [f EXCEPT !.closed = TRUE]]

\* struct.unpack(">BI", header_bytes) of the bytes a header read returned
Unpack(st, f, r, first) ==
    IF Len(r.data) # HeaderSize THEN
        Raise([st EXCEPT !.buf = r.buf, !.hlen = Len(r.data)],
              [f EXCEPT !.pos = r.pos], "struct.error")
    ELSE
        [st |-> [st EXCEPT !.pc = "loop", !.buf = r.buf, !.hlen = Len(r.data),
                           !.flags = UnpackFlags(r.data),
                           !.size = UnpackSize(r.data),
                           !.block_start = IF first THEN HeaderSize
                                           ELSE st.block_start + HeaderSize],
         f  |-> [f EXCEPT !.pos = r.pos]]

\* seek(0, 0), the BufferedReader and the first header
ScanBegin(st, f) ==
    IF f.closed THEN Raise(st, f, "ValueError: closed file")
    ELSE Unpack(st, f, BufRead(<<>>, [f EXCEPT !.pos = 0], HeaderSize), TRUE)

\* the test of `while size > 0' and the payload read of one iteration
ScanWhile(st, f) ==
    IF ~(st.size > 0) THEN Return(st, f)
    ELSE IF st.block_start + st.size > block_size THEN
        LET r == BufRead(st.buf, f, block_size - st.block_start) IN
        IF r.err # "" THEN Raise(st, f, r.err)
        ELSE [st |-> [st EXCEPT !.pc = "inner", !.buf = r.buf,
                         !.remaining_size = st.size - (block_size - st.block_start),
                         !.data_bytes = r.data],
              f  |-> [f EXCEPT !.pos = r.pos]]
    ELSE
        LET r == BufRead(st.buf, f, st.size) IN
        IF r.err # "" THEN Raise(st, f, r.err)
        ELSE [st |-> [st EXCEPT !.pc = "emit", !.buf = r.buf, !.data_bytes = r.data,
                         !.block_start = st.block_start + st.size],
              f  |-> [f EXCEPT !.pos = r.pos]]

\* one iteration of `while remaining_size > 0'
ScanInner(st, f) ==
    IF ~(st.remaining_size > 0) THEN [st |-> [st EXCEPT !.pc = "emit"], f |-> f]
    ELSE
        LET r == BufRead(st.buf, f, Min(st.remaining_size, block_size)) IN
        IF r.err # "" THEN Raise(st, f, r.err)
        ELSE [st |-> [st EXCEPT !.buf = r.buf,
                         !.data_bytes = st.data_bytes \o r.data,
                         !.remaining_size = st.remaining_size - Len(r.data),
                         !.block_start = Len(r.data)],
              f  |-> [f EXCEPT !.pos = r.pos]]

\* `if flags & DELETED_FLAG == 0: yield self.rows.from_bytes(data_bytes)'
ScanYield(st, f) ==
    IF st.flags % 2 = DELETED_FLAG THEN [st |-> [st EXCEPT !.pc = "next"], f |-> f]
    ELSE IF ~DecodeOk(st.data_bytes) THEN Raise(st, f, "MsgpackDecodeError")
    ELSE [st |-> [st EXCEPT !.pc = "yielded",
                            !.out = Append(st.out, from_bytes(st.data_bytes))],
          f  |-> f]

\* the header of the next record, read after the yield
ScanNextHeader(st, f) ==
    LET r == BufRead(st.buf, f, HeaderSize) IN
    IF r.err # "" THEN Raise(st, f, r.err)
    ELSE IF Len(r.data) = 0 THEN
        Return([st EXCEPT !.hlen = 0], [f EXCEPT !.pos = r.pos])
    ELSE Unpack(st, f, r, FALSE)

\* one block of statements of the generator body
ScanStep(M) ==
    CASE M.st.pc = "idle"                -> ScanBegin(M.st, M.f)
      [] M.st.pc = "loop"                -> ScanWhile(M.st, M.f)
      [] M.st.pc = "inner"               -> ScanInner(M.st, M.f)
      [] M.st.pc = "emit"                -> ScanYield(M.st, M.f)
      [] M.st.pc \in {"yielded", "next"}  -> ScanNextHeader(M.st, M.f)
      [] OTHER                           -> M

\* next(generator): run to the next yield, to the end or to the exception.
\* An iteration that changes nothing repeats forever: the call never returns
\* and the frame stays where it is (pc "inner").
RECURSIVE RunNext(_)
RunNext(M) ==
    LET M2 == ScanStep(M) IN
    IF M2 = M \/ M2.st.pc \in {"yielded", "done", "raised"} THEN M2
    ELSE RunNext(M2)

\* list(scan()) on a fresh generator: every next() until the scan ends
RECURSIVE RunAll(_)
RunAll(M) ==
    LET M2 == ScanStep(M) IN
    IF M2 = M \/ M2.st.pc \in {"done", "raised"} THEN M2
    ELSE RunAll(M2)

\* the schema that __init__ gives the row class, cut down to its first
\* field (the source lists eight)
schema == <<[name |-> "id", type |-> "SMALLINT", nullable |-> FALSE]>>

\* check_tuple_schema(data, schema) of row_class.py, for rows whose values
\* are integers: the error it raises, "" when it raises none
check_tuple_schema(data) ==
    IF Len(schema) # Len(data) THEN "ValueError: different lengths"
    ELSE IF \E i \in 1..Len(data) : data[i] \notin Int THEN "ValueError: type"
    ELSE ""

(* ------------------- R&D/row_class.py: fixed-width codec --------------- *)
\* A field value is <<>> for None and <<v>> for a value v: an integer, a
\* string (the sequence of its code points), a boolean, or a double (its
\* name in DoubleBits).

\* a schema handed to Row.create_class: one field of each kind
codec_schema ==
    << [type |-> "INTEGER", nullable |-> FALSE],
       [type |-> "VARCHAR", nullable |-> FALSE],
       [type |-> "BOOLEAN", nullable |-> TRUE],
       [type |-> "FLOAT",   nullable |-> TRUE] >>

\* the largest number struct's ">H" packs
USHRT_MAX == 65535

\* str.encode("utf-8") for code points below 2048 (one or two bytes each)
RECURSIVE utf8_encode(_)
utf8_encode(str) ==
    IF \A i \in 1..Len(str) : str[i] < 128 THEN str
    ELSE (IF Head(str) < 128 THEN <<Head(str)>>
          ELSE <<192 + (Head(str) \div 64), 128 + (Head(str) % 64)>>)
         \o utf8_encode(Tail(str))

\* bytes.decode("utf-8") of well-formed one- and two-byte sequences
RECURSIVE utf8_decode(_)
utf8_decode(b) ==
    IF \A i \in 1..Len(b) : b[i] < 128 THEN b
    ELSE IF Head(b) < 128 THEN <<Head(b)>> \o utf8_decode(Tail(b))
    ELSE <<(Head(b) - 192) * 64 + (b[2] - 128)>> \o utf8_decode(Drop(b, 2))

\* struct.pack(">H", n): struct.error outside 0..65535
pack_H_wrapping(n) == [err |-> "", bytes |-> <<(n \div 256) % 256, n % 256>>]

pack_H(n) ==
    IF n > USHRT_MAX THEN [err |-> "struct.error", bytes |-> <<>>]
    ELSE [err |-> "", bytes |-> <<n \div 256, n % 256>>]

unpack_H(b) == b[1] * 256 + b[2]

\* struct.pack(">q", v), two's complement, for v of 32 bits
pack_q(v) ==
    (IF v < 0 THEN <<255, 255, 255, 255>> ELSE <<0, 0, 0, 0>>) \o U32BE(v)

unpack_q(b) ==
    IF b[1] < 128 THEN b[5] * 16777216 + b[6] * 65536 + b[7] * 256 + b[8]
    ELSE 0 - ((255 - b[5]) * 16777216 + (255 - b[6]) * 65536
              + (255 - b[7]) * 256 + (255 - b[8])) - 1

\* IEEE 754 doubles and their eight bytes, as struct's ">d" packs them
DoubleBits ==
    [x \in {"0.0", "1.5"} |->
        IF x = "0.0" THEN <<0, 0, 0, 0, 0, 0, 0, 0>> ELSE <<63, 248, 0, 0, 0, 0, 0, 0>>]

\* TYPE_DICT: struct.pack(form, value) and struct.unpack_from(form, ...)
struct_pack(type, v) ==
    CASE type = "BOOLEAN" -> <<IF v THEN 1 ELSE 0>>
      [] type = "FLOAT"   -> DoubleBits[v]
      [] type = "INTEGER" -> pack_q(v)

struct_unpack(type, b) ==
    CASE type = "BOOLEAN" -> b[1] # 0
      [] type = "FLOAT"   -> CHOOSE x \in DOMAIN DoubleBits : DoubleBits[x] = b
      [] type = "INTEGER" -> unpack_q(b)

calcsize(type) == IF type = "BOOLEAN" THEN 1 ELSE 8

\* the body of the loop of Row.to_bytes for one field
EncodeField(value, ft) ==
    IF Len(value) = 0 /\ ft.nullable THEN [err |-> "", bytes |-> <<0>>]
    ELSE IF Len(value) = 0 THEN
        [err |-> IF ft.type = "VARCHAR" THEN "AttributeError" ELSE "struct.error",
         bytes |-> <<>>]
    ELSE
        LET prefix == IF ft.nullable THEN <<1>> ELSE <<>> IN
        IF ft.type = "VARCHAR" THEN
            LET value_bytes == utf8_encode(value[1])
                len         == pack_H(Len(value_bytes))
            IN  IF len.err # "" THEN len
                ELSE [err |-> "", bytes |-> prefix \o len.bytes \o value_bytes]
        ELSE [err |-> "", bytes |-> prefix \o struct_pack(ft.type, value[1])]

\* Row.to_bytes of row_class.py, from the i-th field of the schema on
RECURSIVE RowClass_to_bytes(_, _)
RowClass_to_bytes(row, i) ==
    IF i > Len(codec_schema) THEN [err |-> "", bytes |-> <<>>]
    ELSE IF i > Len(row) THEN [err |-> "IndexError", bytes |-> <<>>]
    ELSE LET one == EncodeField(row[i], codec_schema[i]) IN
         IF one.err # "" THEN one
         ELSE LET rest == RowClass_to_bytes(row, i + 1) IN
              IF rest.err # "" THEN rest
              ELSE [err |-> "", bytes |-> one.bytes \o rest.bytes]

\* Row.from_bytes of row_class.py, from the i-th field of the schema on, at
\* offset; struct.unpack_from raises struct.error when the data is too short
RECURSIVE RowClass_from_bytes(_, _, _)
RowClass_from_bytes(data, offset, i) ==
    IF i > Len(codec_schema) THEN [err |-> "", fields |-> <<>>]
    ELSE
        LET ft   == codec_schema[i]
            off1 == IF ft.nullable THEN offset + 1 ELSE offset
            none == ft.nullable /\ Len(data) > offset /\ data[offset + 1] = 0
            slen == IF ft.type = "VARCHAR" /\ Len(data) >= off1 + 2
                    THEN unpack_H(SubSeq(data, off1 + 1, off1 + 2)) ELSE 0
            size == IF ft.type = "VARCHAR" THEN 2 + slen ELSE calcsize(ft.type)
        IN  IF ft.nullable /\ Len(data) < offset + 1 THEN
                [err |-> "struct.error", fields |-> <<>>]
            ELSE IF none THEN
                LET rest == RowClass_from_bytes(data, off1, i + 1) IN
                IF rest.err # "" THEN rest
                ELSE [err |-> "", fields |-> << <<>> >> \o rest.fields]
            ELSE IF Len(data) < off1 + size THEN
                [err |-> "struct.error", fields |-> <<>>]
            ELSE
                LET raw  == SubSeq(data, off1 + 1, off1 + size)
                    v    == IF ft.type = "VARCHAR" THEN utf8_decode(Drop(raw, 2))
                            ELSE struct_unpack(ft.type, raw)
                    rest == RowClass_from_bytes(data, off1 + size, i + 1)
                IN  IF rest.err # "" THEN rest
                    ELSE [err |-> "", fields |-> << <<v>> >> \o rest.fields]

(* ------------------------- logs found on disk -------------------------- *)
\* a frame as record.py lays it out: flags, payload size, payload
Frame(flags, payload) == <<flags>> \o U32BE(Len(payload)) \o payload

\* flags bytes: bit 0 is DELETED_FLAG, the other bits have no meaning yet
LogFlags == {0, 1, 2, 129}

\* payloads: rows of a key and a value, a row of a key only, and no payload
LogPayloads == {<<>>, packb(<<1>>), packb(<<1, 1>>), packb(<<1, 2>>), packb(<<2, 1>>)}

LogFrames == {Frame(fl, pl) : fl \in LogFlags, pl \in LogPayloads}

RECURSIVE Concat(_)
Concat(ss) == IF ss = <<>> THEN <<>> ELSE Head(ss) \o Concat(Tail(ss))

\* the contents of 00000000.data made of whole frames
LogContents == {Concat(fs) : fs \in UNION {[1..n -> LogFrames] : n \in 0..MaxFrames}}

(* ------------------------------- the engine ---------------------------- *)
\* self.file as the scan code sees it: offset, closed flag and content
File == [pos |-> file.pos, closed |-> file.closed, data |-> disk]

\* a next() call that never returns holds the only thread of the caller
Hung == \E s \in ScanIds : scans[s].pc = "inner"

\* the caller is between two calls
\* a HadroDB object exists in a live process
Up == est # "down"

Idle == Up /\ apc = "idle" /\ ~Hung

NoSnap == [state |-> "none", disk |-> <<>>, key_dir |-> <<>>]

NoKv == [sets |-> [k \in Keys |-> <<0>>], got |-> <<>>]

\* the collection is a directory that holds the log file; no call of __init__
\* is on record
AsOpened == [kind |-> "dir", log |-> TRUE, call |-> <<>>]

\* no row is with a codec
NoCodec == [pc |-> "none"]

Threads == {1, 2}

\* a thread that is not in append()
NoThread == [pc |-> "idle", idx |-> 0, loaded |-> 0]

NoThreads == [t \in Threads |-> NoThread]

Init ==
    /\ est = "open"
    /\ disk = <<>>
    /\ synced = 0
    /\ file = [pos |-> 0, closed |-> FALSE]
    /\ write_position = 0
    /\ key_dir = <<>>
    /\ mode \in {"AGGRESSIVE", "DEFAULT"}
    /\ block_size \in BlockSizes
    /\ scans = [s \in ScanIds |-> NoScan]
    /\ apc = "idle"
    /\ appended = <<>>
    /\ kv = NoKv
    /\ snap = NoSnap
    /\ coll = AsOpened
    /\ codec = NoCodec
    /\ thr = NoThreads

\* Open with the file opened in "w+b" mode, which truncates it
OpenTruncating ==
    /\ ~Up \/ Idle
    /\ est' = "open"
    /\ disk' = <<>>
    /\ synced' = 0
    /\ write_position' = 0
    /\ key_dir' = <<>>
    /\ file' = [pos |-> 0, closed |-> FALSE]
    /\ scans' = [s \in ScanIds |-> NoScan]
    /\ apc' = "idle"
    /\ snap' = IF snap.state = "closed" THEN [snap EXCEPT !.state = "reopened"]
               ELSE NoSnap
    /\ UNCHANGED <<mode, block_size, appended, kv>>
    /\ UNCHANGED <<coll, codec, thr>>

\* HadroDB.__init__ on the collection: a new engine object replaces the old
\* one, whose generators and file object go with it.  open(.., "a+b") keeps
\* the content and leaves the offset at the end of the file.
Open ==
    /\ ~Up \/ Idle
    /\ est' = "open"
    /\ write_position' = 0
    /\ key_dir' = <<>>
    /\ file' = [pos |-> Len(disk), closed |-> FALSE]
    /\ scans' = [s \in ScanIds |-> NoScan]
    /\ apc' = "idle"
    /\ snap' = IF snap.state = "closed" THEN [snap EXCEPT !.state = "reopened"]
               ELSE NoSnap
    /\ UNCHANGED <<disk, synced, mode, block_size, appended, kv>>
    /\ UNCHANGED <<coll, codec, thr>>

\* the arguments of __init__: no collection, or the name of one
Collections == {"None", "planets"}

\* HadroDB.__init__(collection) with whatever is at the collection's path.
\* `collection + "/00000000.data"' comes before the test for None and raises
\* TypeError for None; a path that is not a directory raises ValueError; an
\* absent path is created; then the log is opened in "a+b" mode, which
\* creates it when it is not there.  A call that raises makes no object and
\* leaves the one the caller has as it is.
HadroDB_init(collection) ==
    /\ ~Up \/ Idle
    /\ LET err == IF collection = "None" THEN "TypeError"
                  ELSE IF coll.kind = "file"
                       THEN "ValueError: Collection must be a folder"
                       ELSE ""
       IN  /\ coll' = [kind |-> IF err = "" THEN "dir" ELSE coll.kind,
                       log  |-> IF err = "" THEN TRUE ELSE coll.log,
                       call |-> <<[arg |-> collection, before |-> coll.kind,
                                   err |-> err]>>]
           /\ IF err # "" THEN
                  UNCHANGED <<est, write_position, key_dir, file, scans, apc, snap>>
              ELSE
                  /\ est' = "open"
                  /\ write_position' = 0
                  /\ key_dir' = <<>>
                  /\ file' = [pos |-> Len(disk), closed |-> FALSE]
                  /\ scans' = [s \in ScanIds |-> NoScan]
                  /\ apc' = "idle"
                  /\ snap' = NoSnap
    /\ UNCHANGED <<disk, synced, mode, block_size, appended, kv, codec, thr>>

\* os.write on a descriptor that was opened without O_APPEND: the bytes go
\* where the descriptor's offset is, over what is there
os_write_at_offset(f, data) ==
    [data |-> Take(f.data, f.pos) \o data \o Drop(f.data, f.pos + Len(data)),
     pos  |-> f.pos + Len(data)]

\* os.write(fd, data) on the descriptor of a file opened in "a+b" mode
\* (O_APPEND): the offset is moved to the end of the file before the bytes
\* are written, wherever a read or a seek left it
os_write(f, data) ==
    [data |-> f.data \o data,
     pos  |-> Len(f.data) + Len(data)]

\* os.write(self.fileno, data) of _write, with the encoding that precedes it
\* in append.  The descriptor is in append mode: the bytes go to the end of
\* the file and the descriptor's offset ends up behind them.  On a closed
\* descriptor os.write raises OSError and append has done nothing.
AppendWrite(row) ==
    /\ Idle
    /\ Len(appended) < MaxAppends
    /\ IF file.closed THEN
           UNCHANGED <<disk, file, apc, appended, snap>>
       ELSE
           /\ disk' = os_write(File, to_bytes(row)).data
           /\ file' = [file EXCEPT !.pos = os_write(File, to_bytes(row)).pos]
           /\ apc' = "written"
           /\ appended' = Append(appended,
                                 [row |-> row, off |-> Len(disk), at |-> file.pos,
                                  returned |-> FALSE,
                                  raised |-> FALSE])
           /\ snap' = NoSnap
    /\ UNCHANGED <<est, synced, write_position, key_dir, mode, block_size, scans,
                   kv>>
    /\ UNCHANGED <<coll, codec, thr>>

\* the local bytes_to_write of the running append
bytes_to_write == to_bytes(appended[Len(appended)].row)

\* _write with the fsync left out
AppendFsyncSkipped ==
    /\ Up /\ apc = "written"
    /\ apc' = "flushed"
    /\ UNCHANGED <<est, disk, synced, file, write_position, key_dir, mode,
                   block_size, scans, appended, kv, snap>>
    /\ UNCHANGED <<coll, codec, thr>>

\* the rest of _write: os.fsync(self.fileno) in AGGRESSIVE mode only
AppendFsync ==
    /\ Up /\ apc = "written"
    /\ synced' = IF mode = "AGGRESSIVE" THEN Len(disk) ELSE synced
    /\ apc' = "flushed"
    /\ UNCHANGED <<est, disk, file, write_position, key_dir, mode, block_size,
                   scans, appended, kv, snap>>
    /\ UNCHANGED <<coll, codec, thr>>

\* os.fsync(self.fileno) of _write raises OSError: nothing catches it, so it
\* leaves _write and append, and the statements after the call are not run
AppendFsyncFails ==
    /\ Up /\ apc = "written" /\ mode = "AGGRESSIVE"
    /\ appended' = [appended EXCEPT ![Len(appended)].raised = TRUE]
    /\ apc' = "idle"
    /\ UNCHANGED <<est, disk, synced, file, write_position, key_dir, mode,
                   block_size, scans, kv, snap>>
    /\ UNCHANGED <<coll, codec, thr>>

\* self.write_position += len(bytes_to_write), and append returns
AppendReturn ==
    /\ Up /\ apc = "flushed"
    /\ write_position' = write_position + Len(bytes_to_write)
    /\ appended' = [appended EXCEPT ![Len(appended)].returned = TRUE]
    /\ apc' = "idle"
    /\ UNCHANGED <<est, disk, synced, file, key_dir, mode, block_size, scans,
                   kv, snap>>
    /\ UNCHANGED <<coll, codec, thr>>

\* append() in thread t, up to os.write of _write.  Nothing in append or
\* _write takes a lock; the interpreter may switch threads between any two
\* of the steps below.  One os.write on the O_APPEND descriptor puts the
\* whole frame at the end of the file.
ThreadWrite(t, row) ==
    /\ est = "open" /\ apc = "idle" /\ ~Hung
    /\ thr[t].pc = "idle"
    /\ Len(appended) < MaxAppends
    /\ IF file.closed THEN
           UNCHANGED <<disk, file, appended, thr>>
       ELSE
           /\ disk' = os_write(File, to_bytes(row)).data
           /\ file' = [file EXCEPT !.pos = os_write(File, to_bytes(row)).pos]
           /\ appended' = Append(appended,
                                 [row |-> row, off |-> Len(disk), at |-> file.pos,
                                  returned |-> FALSE,
                                  raised |-> FALSE])
           /\ thr' = [thr EXCEPT ![t] = [pc |-> "written", idx |-> Len(appended) + 1,
                                         loaded |-> 0]]
    /\ UNCHANGED <<est, synced, write_position, key_dir, mode, block_size, scans,
                   apc, kv, snap, coll, codec>>

\* the rest of _write in thread t
ThreadFsync(t) ==
    /\ thr[t].pc = "written"
    /\ synced' = IF mode = "AGGRESSIVE" THEN Len(disk) ELSE synced
    /\ thr' = [thr EXCEPT ![t].pc = "flushed"]
    /\ UNCHANGED <<est, disk, file, write_position, key_dir, mode, block_size,
                   scans, apc, appended, kv, snap, coll, codec>>

\* `self.write_position += len(bytes_to_write)' in thread t, first half: the
\* attribute is read, then len() is called, where the interpreter may switch
ThreadLoad(t) ==
    /\ thr[t].pc = "flushed"
    /\ thr' = [thr EXCEPT ![t].pc = "loaded", ![t].loaded = write_position]
    /\ UNCHANGED <<est, disk, synced, file, write_position, key_dir, mode,
                   block_size, scans, apc, appended, kv, snap, coll, codec>>

\* second half: the sum is stored in the attribute, and append returns
ThreadStore(t) ==
    /\ thr[t].pc = "loaded"
    /\ write_position' = thr[t].loaded + Len(to_bytes(appended[thr[t].idx].row))
    /\ appended' = [appended EXCEPT ![thr[t].idx].returned = TRUE]
    /\ thr' = [thr EXCEPT ![t] = NoThread]
    /\ UNCHANGED <<est, disk, synced, file, key_dir, mode, block_size, scans,
                   apc, kv, snap, coll, codec>>

\* The variable codec holds strings and byte strings as their runs: the
\* sequence of [b, n] for n times b.  Runs(seq) is the runs of a sequence
\* and Bytes(runs) the sequence of some runs: Bytes(Runs(seq)) = seq.
RECURSIVE RunsFrom(_, _)
RunsFrom(seq, starts) ==
    IF starts = {} THEN <<>>
    ELSE LET b    == CHOOSE x \in starts : \A y \in starts : x <= y
             rest == starts \ {b}
             e    == IF rest = {} THEN Len(seq) + 1
                     ELSE CHOOSE x \in rest : \A y \in rest : x <= y
         IN  <<[b |-> seq[b], n |-> e - b]>> \o RunsFrom(seq, rest)

Runs(seq) == RunsFrom(seq, {i \in 1..Len(seq) : i = 1 \/ seq[i] # seq[i - 1]})

RECURSIVE Bytes(_)
Bytes(runs) ==
    IF runs = <<>> THEN <<>>
    ELSE SubSeq([i \in 1..Head(runs).n |-> Head(runs).b], 1, Head(runs).n)
         \o Bytes(Tail(runs))

\* a row of codec_schema as the variable holds it, and back
StoreRow(row) ==
    [i \in 1..Len(row) |->
        IF codec_schema[i].type = "VARCHAR" /\ Len(row[i]) = 1
        THEN <<Runs(row[i][1])>> ELSE row[i]]

LoadRow(stored) ==
    [i \in 1..Len(stored) |->
        IF codec_schema[i].type = "VARCHAR" /\ Len(stored[i]) = 1
        THEN <<Bytes(stored[i][1])>> ELSE stored[i]]

\* Row.to_bytes of the row in hand: record.py's for the self-describing
\* variant, row_class.py's for the fixed-width one
ToBytes ==
    /\ codec.pc = "new"
    /\ LET r == IF codec.variant = "msgpack"
                THEN [err |-> "", bytes |-> to_bytes(codec.row)]
                ELSE RowClass_to_bytes(LoadRow(codec.row), 1)
       IN  codec' = [codec EXCEPT !.pc = IF r.err = "" THEN "encoded" ELSE "failed",
                                  !.bytes = Runs(r.bytes), !.err = r.err]
    /\ UNCHANGED <<est, disk, synced, file, write_position, key_dir, mode,
                   block_size, scans, apc, appended, kv, snap, coll, thr>>

\* Row.from_bytes of the bytes that to_bytes returned
FromBytes ==
    /\ codec.pc = "encoded"
    /\ LET data == Bytes(codec.bytes)
           r    == IF codec.variant = "msgpack"
                   THEN IF DecodeOk(data)
                        THEN [err |-> "", fields |-> from_bytes(data)]
                        ELSE [err |-> "MsgpackDecodeError", fields |-> <<>>]
                   ELSE RowClass_from_bytes(data, 0, 1)
       IN  codec' = [codec EXCEPT
                        !.pc = IF r.err = "" THEN "decoded" ELSE "failed",
                        !.back = IF codec.variant = "msgpack" THEN r.fields
                                 ELSE StoreRow(r.fields),
                        !.err = r.err]
    /\ UNCHANGED <<est, disk, synced, file, write_position, key_dir, mode,
                   block_size, scans, apc, appended, kv, snap, coll, thr>>

\* next() on a generator of scan(): one suspended at its yield, or a new one
\* (the body runs from its first statement), which takes the first slot that
\* holds no live generator
ScanNext(s) ==
    /\ Idle
    /\ \/ scans[s].pc = "yielded"
       \/ /\ scans[s].pc \in {"idle", "done"}
          /\ \A o \in 1..(s - 1) : scans[o].pc \in {"yielded", "raised"}
    /\ LET st0 == IF scans[s].pc = "yielded" THEN scans[s]
                  ELSE [NoScan EXCEPT !.startlen = Len(disk)]
           M   == RunNext([st |-> st0, f |-> File])
       IN  /\ scans' = [scans EXCEPT ![s] = M.st]
           /\ file' = [pos |-> M.f.pos, closed |-> M.f.closed]
    /\ snap' = IF scans[s].pc # "yielded"
                  /\ \E o \in ScanIds : scans[o].pc # "idle"
               THEN NoSnap ELSE snap
    /\ UNCHANGED <<est, disk, synced, write_position, key_dir, mode, block_size,
                   apc, appended, kv>>
    /\ UNCHANGED <<coll, codec, thr>>

\* the caller drops a suspended generator: its frame is cleared and the
\* BufferedReader it held closes self.file
ScanAbandon(s) ==
    /\ Idle
    /\ scans[s].pc = "yielded"
    /\ scans' = [scans EXCEPT ![s] = NoScan]
    /\ file' = [file EXCEPT !.closed = TRUE]
    /\ snap' = NoSnap
    /\ UNCHANGED <<est, disk, synced, write_position, key_dir, mode, block_size,
                   apc, appended, kv>>
    /\ UNCHANGED <<coll, codec, thr>>

\* the exception a generator raised is released: the traceback lets go of the
\* generator's frame and the BufferedReader it held closes self.file
ExcRelease(s) ==
    /\ Idle
    /\ scans[s].pc = "raised"
    /\ scans' = [scans EXCEPT ![s] = NoScan]
    /\ file' = [file EXCEPT !.closed = TRUE]
    /\ snap' = NoSnap
    /\ UNCHANGED <<est, disk, synced, write_position, key_dir, mode, block_size,
                   apc, appended, kv>>
    /\ UNCHANGED <<coll, codec, thr>>

\* HadroDB.close without the call of os.fsync
CloseFsyncSkipped ==
    /\ Idle /\ est = "open"
    /\ IF file.closed THEN
           UNCHANGED <<est, synced, file, snap>>
       ELSE
           /\ synced' = synced
           /\ file' = [file EXCEPT !.closed = TRUE]
           /\ snap' = [state |-> "closed", disk |-> disk, key_dir |-> key_dir]
           /\ est' = "closed"
    /\ UNCHANGED <<disk, write_position, key_dir, mode, block_size, scans,
                   apc, appended, kv>>
    /\ UNCHANGED <<coll, codec, thr>>

\* HadroDB.close: flush, fsync, close.  When a finished scan has closed
\* self.file, flush raises ValueError and close has done nothing.
Close ==
    /\ Idle /\ est = "open"
    /\ IF file.closed THEN
           UNCHANGED <<est, synced, file, snap>>
       ELSE
           /\ synced' = Len(disk)
           /\ file' = [file EXCEPT !.closed = TRUE]
           /\ snap' = [state |-> "closed", disk |-> disk, key_dir |-> key_dir]
           /\ est' = "closed"
    /\ UNCHANGED <<disk, write_position, key_dir, mode, block_size, scans,
                   apc, appended, kv>>
    /\ UNCHANGED <<coll, codec, thr>>

\* HadroDB.close on an engine that close() has closed: self.file.flush()
\* raises ValueError (flush of closed file) before anything else is done
CloseAgain ==
    /\ Idle /\ est \in {"closed", "reclosed"}
    /\ est' = "reclosed"
    /\ UNCHANGED <<disk, synced, file, write_position, key_dir, mode, block_size,
                   scans, apc, appended, kv, snap>>
    /\ UNCHANGED <<coll, codec, thr>>

\* the offset from which a crash may lose bytes: the last write may be torn,
\* unless fsync has made it durable
TornFrom ==
    LET last == IF appended = <<>> THEN 0 ELSE appended[Len(appended)].off
    IN  IF synced > last THEN synced ELSE Min(last, Len(disk))

\* the process dies: bytes of the last write that fsync has not made durable
\* may be lost from the end of the file, and every object of the process is
\* gone
Crash ==
    /\ Up
    /\ \E n \in TornFrom..Len(disk) :
          /\ disk' = Take(disk, n)
          /\ synced' = n
    /\ est' = "down"
    /\ file' = [pos |-> 0, closed |-> TRUE]
    /\ write_position' = 0
    /\ scans' = [s \in ScanIds |-> NoScan]
    /\ apc' = "idle"
    /\ snap' = NoSnap
    /\ UNCHANGED <<key_dir, mode, block_size, appended, kv>>
    /\ UNCHANGED <<coll, codec, thr>>

\* HadroDB.__setitem__: `return self.set(key, value)'; the class defines no
\* attribute `set', so the attribute lookup raises
SetItem(k, v) ==
    /\ Idle
    /\ kv' = [kv EXCEPT !.sets[k] = v, !.got = <<>>]
    /\ UNCHANGED <<est, disk, synced, file, write_position, key_dir, mode,
                   block_size, scans, apc, appended, snap>>
    /\ UNCHANGED <<coll, codec, thr>>

\* HadroDB.__getitem__ of one key: `return self.get(item)'; the class defines
\* no attribute `get', so the attribute lookup raises
GetItem(k) ==
    /\ Idle
    /\ kv' = [kv EXCEPT !.got = <<[key |-> k, outcome |-> "AttributeError"]>>]
    /\ UNCHANGED <<est, disk, synced, file, write_position, key_dir, mode,
                   block_size, scans, apc, appended, snap>>
    /\ UNCHANGED <<coll, codec, thr>>

Next ==
    \/ Open
    \/ \E row \in Rows : AppendWrite(row)
    \/ AppendFsync
    \/ AppendReturn
    \/ \E s \in ScanIds : ScanNext(s)
    \/ \E s \in ScanIds : ScanAbandon(s)
    \/ \E s \in ScanIds : ExcRelease(s)
    \/ Close
    \/ CloseAgain
    \/ Crash

Spec == Init /\ [][Next]_vars

NextKV ==
    \/ \E k \in Keys, v \in Rows : SetItem(k, v)
    \/ \E k \in Keys : GetItem(k)
    \/ \E row \in Rows : AppendWrite(row)
    \/ AppendFsync
    \/ AppendReturn

SpecKV == Init /\ [][NextKV]_vars

\* HadroDB.__init__ on a collection whose log holds frames already
InitLog ==
    /\ est = "open"
    /\ disk \in LogContents
    /\ synced = Len(disk)
    /\ file = [pos |-> Len(disk), closed |-> FALSE]
    /\ write_position = 0
    /\ key_dir = <<>>
    /\ mode \in {"AGGRESSIVE", "DEFAULT"}
    /\ block_size \in BlockSizes
    /\ scans = [s \in ScanIds |-> NoScan]
    /\ apc = "idle"
    /\ appended = <<>>
    /\ kv = NoKv
    /\ snap = NoSnap
    /\ coll = AsOpened
    /\ codec = NoCodec
    /\ thr = NoThreads

\* reading a log that exists: the engine is opened and scanned
NextLog ==
    \/ Open
    \/ \E s \in ScanIds : ScanNext(s)
    \/ \E s \in ScanIds : ScanAbandon(s)
    \/ \E s \in ScanIds : ExcRelease(s)

SpecLog == InitLog /\ [][NextLog]_vars

\* appends on a device whose fsync can fail, and the scans that follow
NextIO ==
    \/ Open
    \/ \E row \in Rows : AppendWrite(row)
    \/ AppendFsync
    \/ AppendFsyncFails
    \/ AppendReturn
    \/ \E s \in ScanIds : ScanNext(s)
    \/ \E s \in ScanIds : ExcRelease(s)

SpecIO == Init /\ [][NextIO]_vars

\* no engine yet, and at the collection's path nothing, a file, or a
\* directory with or without a log in it
InitOpen ==
    /\ est = "down"
    /\ coll \in {[kind |-> k, log |-> FALSE, call |-> <<>>] :
                    k \in {"absent", "file", "dir"}}
               \cup {AsOpened}
    /\ disk \in IF coll.log THEN {<<>>} \cup {to_bytes(r) : r \in Rows} ELSE {<<>>}
    /\ synced = Len(disk)
    /\ file = [pos |-> 0, closed |-> TRUE]
    /\ write_position = 0
    /\ key_dir = <<>>
    /\ mode \in {"AGGRESSIVE", "DEFAULT"}
    /\ block_size \in BlockSizes
    /\ scans = [s \in ScanIds |-> NoScan]
    /\ apc = "idle"
    /\ appended = <<>>
    /\ kv = NoKv
    /\ snap = NoSnap
    /\ codec = NoCodec
    /\ thr = NoThreads

\* engines are constructed on the path, written to and closed
NextOpen ==
    \/ \E c \in Collections : HadroDB_init(c)
    \/ \E row \in Rows : AppendWrite(row)
    \/ AppendFsync
    \/ AppendReturn
    \/ Close
    \/ CloseAgain

SpecOpen == InitOpen /\ [][NextOpen]_vars

\* two threads of one process append to the same engine
NextThreads ==
    \/ \E t \in Threads, row \in Rows : ThreadWrite(t, row)
    \/ \E t \in Threads : ThreadFsync(t)
    \/ \E t \in Threads : ThreadLoad(t)
    \/ \E t \in Threads : ThreadStore(t)

SpecThreads == Init /\ [][NextThreads]_vars

\* rows that conform to codec_schema: short ones of every kind of value,
\* and two whose string is USHRT_MAX and USHRT_MAX + 1 bytes long
ShortRows ==
    {<< <<n>>, <<str>>, b, f >> :
        n \in {-1, 0, 1}, str \in {<<>>, <<97>>, <<233, 97>>},
        b \in {<<>>, <<TRUE>>, <<FALSE>>}, f \in {<<>>, <<"1.5">>}}

\* the string of n letters a
Letters(n) == SubSeq([i \in 1..n |-> 97], 1, n)

LongRows ==
    {<< <<1>>, <<Letters(n)>>, <<>>, <<>> >> : n \in {USHRT_MAX, USHRT_MAX + 1}}

NewCodec(variant, row) ==
    [pc |-> "new", variant |-> variant, row |-> row, bytes |-> <<>>,
     back |-> <<>>, err |-> ""]

\* a row is handed to one of the two codecs; no engine is involved
InitCodec ==
    /\ \/ \E row \in Rows : codec = NewCodec("msgpack", row)
       \/ \E row \in ShortRows \cup LongRows : codec = NewCodec("fixed", StoreRow(row))
    /\ est = "down"
    /\ disk = <<>>
    /\ synced = 0
    /\ file = [pos |-> 0, closed |-> TRUE]
    /\ write_position = 0
    /\ key_dir = <<>>
    /\ mode \in {"AGGRESSIVE", "DEFAULT"}
    /\ block_size \in BlockSizes
    /\ scans = [s \in ScanIds |-> NoScan]
    /\ apc = "idle"
    /\ appended = <<>>
    /\ kv = NoKv
    /\ snap = NoSnap
    /\ coll = AsOpened
    /\ thr = NoThreads

NextCodec == ToBytes \/ FromBytes

SpecCodec == InitCodec /\ [][NextCodec]_vars

\* a writer's life: the engine is opened, appended to, closed and killed, and
\* nothing reads the log through scan()
NextDurability ==
    \/ Open
    \/ \E row \in Rows : AppendWrite(row)
    \/ AppendFsync
    \/ AppendReturn
    \/ Close
    \/ CloseAgain
    \/ Crash

SpecDurability == Init /\ [][NextDurability]_vars

\* An engine opens a collection whose log an engine wrote before, in whole
\* frames that are durable, and is then used in an orderly way, with one
\* generator of scan() at a time.
InitWritten ==
    /\ est = "open"
    /\ \E n \in 1..MaxFrames : \E rows \in [1..n -> Rows] :
          disk = Concat([i \in 1..n |-> to_bytes(rows[i])])
    /\ synced = Len(disk)
    /\ file = [pos |-> Len(disk), closed |-> FALSE]
    /\ write_position = 0
    /\ key_dir = <<>>
    /\ mode \in {"AGGRESSIVE", "DEFAULT"}
    /\ block_size \in BlockSizes
    /\ scans = [s \in ScanIds |-> NoScan]
    /\ apc = "idle"
    /\ appended = <<>>
    /\ kv = NoKv
    /\ snap = NoSnap
    /\ coll = AsOpened
    /\ codec = NoCodec
    /\ thr = NoThreads

NextWritten ==
    \/ \E row \in Rows : AppendWrite(row)
    \/ AppendFsync
    \/ AppendReturn
    \/ ScanNext(1)
    \/ ExcRelease(1)
    \/ Close

SpecWritten == InitWritten /\ [][NextWritten]_vars

\* orderly use: the engine is opened, appended to, read with scan() to the
\* end or to an exception, and closed once; the process is never killed
NextRecovery ==
    \/ Open
    \/ \E row \in Rows : AppendWrite(row)
    \/ AppendFsync
    \/ AppendReturn
    \/ \E s \in ScanIds : ScanNext(s)
    \/ \E s \in ScanIds : ExcRelease(s)
    \/ Close

SpecRecovery == Init /\ [][NextRecovery]_vars

(* ----------------------- vocabulary of the claims ---------------------- *)
\* the frames of a log content, read as the format defines them: the rows
\* of the complete frames, and what follows the last complete one
RECURSIVE Frames(_)
Frames(d) ==
    IF Len(d) = 0 THEN [rows |-> <<>>, tail |-> "eof"]
    ELSE IF Len(d) < HeaderSize THEN [rows |-> <<>>, tail |-> "header"]
    ELSE IF Len(d) < HeaderSize + UnpackSize(d) THEN [rows |-> <<>>, tail |-> "payload"]
    ELSE LET rest == Frames(Drop(d, HeaderSize + UnpackSize(d)))
         IN  [rows |-> <<Drop(SubSeq(d, 1, HeaderSize + UnpackSize(d)), HeaderSize + 1)>>
                        \o rest.rows,
              tail |-> rest.tail]

AppendedRows == [i \in 1..Len(appended) |-> appended[i].row]

RECURSIVE EncodeAll(_)
EncodeAll(rows) ==
    IF rows = <<>> THEN <<>> ELSE to_bytes(Head(rows)) \o EncodeAll(Tail(rows))

\* every append returned and the log holds exactly what they wrote
Clean ==
    /\ \A i \in 1..Len(appended) : appended[i].returned
    /\ disk = EncodeAll(AppendedRows)

\* the scan has come to its end: it returned, it raised, or it repeats one
\* statement for ever
Stopped(s) == scans[s].pc \in {"done", "raised", "inner"}

Outcome(st) ==
    [end |-> CASE st.pc = "inner" -> "hung"
               [] OTHER -> st.pc,
     out |-> st.out,
     err |-> st.err]

\* what list(scan()) gives on an engine whose file is open, over content d
ScanAlone(d) ==
    Outcome(RunAll([st |-> [NoScan EXCEPT !.startlen = Len(d)],
                    f  |-> [pos |-> 0, closed |-> FALSE, data |-> d]]).st)

\* generator s stopped on the present log content, no other generator is
\* left, and its file was not closed under it
StoppedAlone(s) ==
    /\ Up
    /\ Stopped(s)
    /\ scans[s].startlen = Len(disk)
    /\ scans[s].err # "ValueError: closed file"
    /\ \A o \in ScanIds \ {s} : scans[o].pc = "idle"

\* the complete frames of a log content, with their flags
RECURSIVE FrameList(_)
FrameList(d) ==
    IF Len(d) < HeaderSize \/ Len(d) < HeaderSize + UnpackSize(d) THEN <<>>
    ELSE <<[flags   |-> UnpackFlags(d),
            payload |-> SubSeq(d, HeaderSize + 1, HeaderSize + UnpackSize(d))]>>
         \o FrameList(Drop(d, HeaderSize + UnpackSize(d)))

\* bit 0 of the flags byte is clear
Live(fr) == fr.flags % 2 = 0

\* a log of one or more whole frames that one block of the reader holds
WholeInOneBlock ==
    disk # <<>> /\ Frames(disk).tail = "eof" /\ Len(disk) <= block_size

\* the key of a frame: the first field of the row in its payload
Key(fr) == from_bytes(fr.payload)[1]

\* the rows of the frames from the i-th on that are live and that no later
\* frame of the same key follows
RECURSIVE LatestLive(_, _)
LatestLive(fl, i) ==
    IF i > Len(fl) THEN <<>>
    ELSE (IF Live(fl[i]) /\ \A j \in (i + 1)..Len(fl) : Key(fl[j]) # Key(fl[i])
          THEN <<from_bytes(fl[i].payload)>> ELSE <<>>)
         \o LatestLive(fl, i + 1)

(* -------------------------------- claims ------------------------------- *)

\* C1: a scan of the log that a sequence of appends wrote yields exactly the
\* appended records, in append order, for every block size.
C1_ScanYieldsAppended ==
    \A s \in ScanIds :
        (StoppedAlone(s) /\ Clean /\ appended # <<>>)
            => /\ scans[s].pc = "done"
               /\ scans[s].out = AppendedRows

\* C2: in AGGRESSIVE mode the bytes of an append are durable before
\* write_position is advanced and when append has returned; in the default
\* mode no step of an append makes bytes durable, a successful close does.
C2_InvPart ==
    mode = "AGGRESSIVE" =>
        /\ apc = "flushed" => synced = Len(disk)
        /\ \A i \in 1..Len(appended) :
              appended[i].returned
                  => synced >= appended[i].off + Len(to_bytes(appended[i].row))

C2_ActPart ==
    (mode = "DEFAULT" /\ Up /\ est' # "down" /\ synced' # synced)
        => /\ apc = "idle" /\ apc' = "idle"
           /\ ~file.closed /\ file'.closed
           /\ synced' = Len(disk)

C2_Durability == [](C2_InvPart) /\ [][C2_ActPart]_vars

C2_Witness ==
    /\ mode = "AGGRESSIVE" /\ Up /\ apc = "idle"
    /\ Len(appended) = MaxAppends
    /\ \A i \in 1..Len(appended) : appended[i].returned
    /\ write_position = Len(disk)
    /\ synced = Len(disk)

\* C3: after close and open the contents are those before close: the KeyDir
\* holds the same mapping and a scan gives what it gave on the content
\* before close.
C3_RecoveryEquivalence ==
    snap.state = "reopened" =>
        /\ disk = snap.disk
        /\ key_dir = snap.key_dir
        /\ \A s \in ScanIds :
              Stopped(s) => Outcome(scans[s]) = ScanAlone(snap.disk)

C3_Witness ==
    /\ snap.state = "reopened"
    /\ Len(snap.disk) > HeaderSize
    /\ \E s \in ScanIds : scans[s].pc = "done" /\ Len(scans[s].out) >= 1

C12_LatestValuePerKey ==
    \A s \in ScanIds :
        (StoppedAlone(s) /\ WholeInOneBlock
            /\ \A i \in 1..Len(FrameList(disk)) :
                  /\ DecodeOk(FrameList(disk)[i].payload)
                  /\ Len(FrameList(disk)[i].payload) >= 2)
            => /\ scans[s].pc = "done"
               /\ scans[s].out = LatestLive(FrameList(disk), 1)

\* C13: when close returns, every byte of the log is durable, in both
\* consistency modes; a close() of an engine that close() has closed changes
\* neither the log content nor write_position nor the KeyDir.
C13_InvPart == est \in {"closed", "reclosed"} => (file.closed /\ synced = Len(disk))

C13_ActPart ==
    /\ (est = "open" /\ est' = "closed") => (disk' = disk /\ synced' = Len(disk))
    /\ (est \in {"closed", "reclosed"} /\ est' \in {"closed", "reclosed"})
           => (disk' = disk /\ write_position' = write_position
               /\ key_dir' = key_dir /\ synced' = synced)

C13_CloseDurable == [](C13_InvPart) /\ [][C13_ActPart]_vars

C13_Witness ==
    /\ est = "reclosed" /\ mode = "DEFAULT"
    /\ Len(appended) = MaxAppends /\ Clean
    /\ write_position = Len(disk)

\* C14: no append of a record that violates the schema writes to the log.
C14_SchemaViolationRejected ==
    \A i \in 1..Len(appended) : check_tuple_schema(appended[i].row) = ""

\* C15: the bytes of an append that failed are not in the log: the log ends
\* where the failed frame would have begun, or the frame of the next append
\* begins there.
C15_FailedAppendLeavesNothing ==
    \A i \in 1..Len(appended) :
        appended[i].raised =>
            IF i = Len(appended) THEN Len(disk) <= appended[i].off
            ELSE appended[i + 1].off <= appended[i].off

\* C16: a call of __init__ without a collection raises the ValueError
\* "HadroDB requires a collection name"; on a path that is a file it raises
\* and the path stays a file with no log; on an absent path it makes the
\* directory and an empty log.
C16_OpenErrors ==
    coll.call # <<>> =>
        LET c == coll.call[1]
        IN  /\ c.arg = "None"
                => c.err = "ValueError: HadroDB requires a collection name"
            /\ (c.arg # "None" /\ c.before = "file")
                => (c.err # "" /\ coll.kind = "file" /\ ~coll.log /\ disk = <<>>)
            /\ (c.arg # "None" /\ c.before = "absent")
                => (c.err = "" /\ coll.kind = "dir" /\ coll.log
                    /\ (appended = <<>> => disk = <<>>))

\* C19: when the appends of two threads have all returned, the log is the
\* frames of the appended records one after the other, and write_position
\* is the sum of their lengths.
C19_AppendsSerialized ==
    (appended # <<>> /\ \A t \in Threads : thr[t].pc = "idle")
        => /\ disk = EncodeAll(AppendedRows)
           /\ write_position = Len(disk)

\* the length in bytes of the string of the fixed-width row in hand
VarcharBytes == Len(utf8_encode(LoadRow(codec.row)[2][1]))

\* C18: a row that conforms to the schema comes back from from_bytes of
\* to_bytes equal to itself, in both codecs (in the fixed-width one a
\* string conforms up to 65,535 bytes).
C18_CodecRoundTrip ==
    (/\ codec.pc \in {"decoded", "failed"}
     /\ codec.variant = "fixed" => VarcharBytes <= USHRT_MAX)
        => (codec.pc = "decoded" /\ codec.back = codec.row)

\* C20: in the fixed-width codec a string of exactly 65,535 bytes comes back
\* from from_bytes of to_bytes equal to itself, and to_bytes of a string of
\* 65,536 bytes or more raises and returns no bytes.
C20_VarcharBoundary ==
    (codec.pc # "none" /\ codec.variant = "fixed") =>
        /\ (VarcharBytes = USHRT_MAX /\ codec.pc \in {"decoded", "failed"})
               => (codec.pc = "decoded" /\ codec.back = codec.row)
        /\ (VarcharBytes > USHRT_MAX /\ codec.pc # "new")
               => (codec.pc = "failed" /\ codec.bytes = <<>> /\ codec.back = <<>>)

C20_Witness ==
    /\ codec.pc = "decoded" /\ codec.variant = "fixed"
    /\ VarcharBytes = USHRT_MAX
    /\ codec.back = codec.row

\* C21: whenever an engine is open and no append() is running,
\* write_position is the length of the log, the offset at which the next
\* append begins: after appends and scans, and right after a collection
\* whose log holds data is opened.
C21_WritePositionIsLogLength ==
    (est = "open" /\ apc = "idle") => write_position = Len(disk)

\* C22: every operation of the engine leaves the bytes of the log where they
\* are and only adds behind them; a step that is not the write of an append
\* (a scan, a close, an open) adds nothing, and the write of an append puts
\* exactly its frame at the end of the log, also when a scan has left the
\* offset of the file at the start or in the middle.
C22_ActPart ==
    est' # "down" =>
        /\ Len(disk') >= Len(disk) /\ Take(disk', Len(disk)) = disk
        /\ appended' = appended => disk' = disk
        /\ Len(appended') > Len(appended) =>
               /\ disk' = disk \o to_bytes(appended'[Len(appended')].row)
               /\ appended'[Len(appended')].off = Len(disk)

C22_AppendOnly == [][C22_ActPart]_vars

\* an append wrote while a scan had left the offset of the file before the
\* end of the log
C22_Witness ==
    \E i \in 1..Len(appended) :
        /\ appended[i].at < appended[i].off
        /\ Len(disk) >= appended[i].off + Len(to_bytes(appended[i].row))

\* C23: without kills and I/O failures the log is at all times a sequence of
\* whole frames, each a flags byte 0, the payload length as a big-endian
\* 32-bit integer and that many payload bytes, the length being 1 or more;
\* and what an append wrote at its offset is such a frame, holding the
\* encoding of its row.
C23_WholeFrames ==
    /\ LET fl == FrameList(disk) IN
       /\ Concat([i \in 1..Len(fl) |->
                     <<0>> \o U32BE(Len(fl[i].payload)) \o fl[i].payload]) = disk
       /\ \A i \in 1..Len(fl) : fl[i].flags = 0 /\ Len(fl[i].payload) >= 1
    /\ \A i \in 1..Len(appended) :
          LET fr == Drop(disk, appended[i].off) IN
          /\ Len(fr) >= HeaderSize
          /\ UnpackFlags(fr) = 0
          /\ UnpackSize(fr) >= 1
          /\ SubSeq(fr, HeaderSize + 1, HeaderSize + UnpackSize(fr))
                 = packb(appended[i].row)

\* the appends have all returned, one of them wrote the empty row, whose
\* payload is a single byte, and frames follow it
C23_Witness ==
    /\ Len(appended) = MaxAppends
    /\ \A i \in 1..Len(appended) : appended[i].returned
    /\ appended[1].row = <<>>
    /\ Len(disk) > appended[1].off + HeaderSize + 1
    /\ Len(FrameList(disk)) >= 1 + MaxAppends

\* the rows of the appends from the i-th on
AppendedFrom(i) == [k \in 1..(Len(appended) - i + 1) |-> appended[i + k - 1].row]

\* C24: when an append wrote behind a log that a kill had left with a partial
\* last frame, and the frames written from then on are whole, a scan of the
\* log yields the rows of those appends, intact and last.
C24_ReadableAfterTornTail ==
    \A s \in ScanIds : \A i \in 1..Len(appended) :
        (/\ est = "open" /\ apc = "idle"
         /\ StoppedAlone(s)
         /\ Frames(Take(disk, appended[i].off)).tail # "eof"
         /\ \A j \in i..Len(appended) : appended[j].returned
         /\ disk = Take(disk, appended[i].off) \o EncodeAll(AppendedFrom(i)))
        => /\ Len(scans[s].out) >= Len(AppendedFrom(i))
           /\ SubSeq(scans[s].out,
                     Len(scans[s].out) - Len(AppendedFrom(i)) + 1,
                     Len(scans[s].out)) = AppendedFrom(i)

\* C4: after a successful append the KeyDir has an entry whose offset is the
\* offset at which the frame of the appended record began.
C4_KeyDirTracksWrites ==
    (Up /\ apc = "idle" /\ write_position > 0 /\ appended # <<>>)
        => \E k \in DOMAIN key_dir : key_dir[k] = appended[Len(appended)].off

\* C5: a get of a key returns the value last set for it, and signals
\* KeyNotFound for a key that was never set.
C5_LastWriterWins ==
    kv.got # <<>> =>
        IF kv.sets[kv.got[1].key] = <<0>>
        THEN kv.got[1].outcome = "KeyNotFound"
        ELSE kv.got[1].outcome = kv.sets[kv.got[1].key]

\* C6: a scan whose first header read returns zero bytes ends normally and
\* yields nothing.
C6_EmptyLogScanEnds ==
    \A s \in ScanIds :
        (Stopped(s) /\ scans[s].startlen = 0 /\ scans[s].hlen = 0)
            => scans[s].pc = "done" /\ scans[s].out = <<>>

\* C7: on a log that ends with 1 to 4 bytes of a header, a scan yields the
\* complete frames before them and ends normally.
C7_TruncatedHeaderIsEof ==
    \A s \in ScanIds :
        (StoppedAlone(s) /\ Frames(disk).tail = "header")
            => /\ scans[s].pc = "done"
               /\ scans[s].out = [i \in 1..Len(Frames(disk).rows) |->
                                      from_bytes(Frames(disk).rows[i])]

\* C8: on a log whose last frame has its header and less payload than the
\* header declares, a scan yields the complete frames before it, does not
\* decode the truncated one and ends normally.
C8_TruncatedPayloadIsEof ==
    \A s \in ScanIds :
        (StoppedAlone(s) /\ Frames(disk).tail = "payload")
            => /\ scans[s].pc = "done"
               /\ scans[s].out = [i \in 1..Len(Frames(disk).rows) |->
                                      from_bytes(Frames(disk).rows[i])]

\* C9: no scan repeats a statement of its loops without consuming input or
\* changing anything.
C9_ScanStops ==
    \A s \in ScanIds :
        scans[s].pc \notin {"idle", "yielded", "done", "raised"}
            => ScanStep([st |-> scans[s], f |-> File]).st # scans[s]

\* C10: every scan that has come to its end on the log that the appends
\* wrote gave what a scan alone gives on it, whatever other scans did before
\* or meanwhile.
C10_ScanIndependent ==
    \A s \in ScanIds :
        (est = "open" /\ Stopped(s) /\ scans[s].startlen = Len(disk) /\ Clean
            /\ appended # <<>>)
            => Outcome(scans[s]) = ScanAlone(disk)

====
